---- MODULE Spec2Model ----
(***************************************************************************)
(* Model of yookue/ts-multi-map: MultiKeyMap (composite key -> value),     *)
(* built on a MultiValueMap (surrogate -> key parts) and a native Map      *)
(* (surrogate -> value).                                                   *)
(*                                                                         *)
(* A native JavaScript Map is modelled as a sequence of [key, val] records *)
(* in insertion order: Map.set on a present key keeps its position, on an  *)
(* absent key appends; Map.delete removes the record.                      *)
(***************************************************************************)
EXTENDS Integers, Sequences, FiniteSets, TLC

\* ------------------------------------------------------------ bounds ----
\* longest key-part sequence a caller passes
MaxKeyLen == 2
\* most entries the map is allowed to hold (set on a new key is not taken beyond it)
MaxSize == 2
\* most arguments passed to a variadic deleteByValues call
MaxArgs == 2

\* ------------------------------------------------------ input domains ----
\* key parts (K)
Parts == {"row1", "col1"}
\* JavaScript's undefined: what a lookup of an absent key returns
Undefined == "undefined"
\* values (V). === and SameValueZero agree on all of them (NaN is not modelled)
Values == {"LiLei", "HanMeimei"}

SeqsUpTo(S, n) == UNION {[1..k -> S] : k \in 0..n}
\* the key-part sequences callers pass, the empty one included
KeySeqs == SeqsUpTo(Parts, MaxKeyLen)
\* the argument lists of deleteByValues(...values)
ValueArgs == SeqsUpTo(Values, MaxArgs)

\* --------------------------------------------------------- native Map ----
Map_new == << >>

Map_has(m, k) == \E i \in 1..Len(m) : m[i].key = k

Map_get(m, k) ==
    IF Map_has(m, k)
    THEN m[CHOOSE i \in 1..Len(m) : m[i].key = k].val
    ELSE Undefined

Map_set(m, k, v) ==
    IF Map_has(m, k)
    THEN [i \in 1..Len(m) |-> IF m[i].key = k THEN [key |-> k, val |-> v] ELSE m[i]]
    ELSE Append(m, [key |-> k, val |-> v])

Map_delete(m, k) == SelectSeq(m, LAMBDA e : e.key # k)

Map_keys(m) == [i \in 1..Len(m) |-> m[i].key]

Map_values(m) == [i \in 1..Len(m) |-> m[i].val]

\* Array.prototype.includes
Includes(array, v) == \E i \in 1..Len(array) : array[i] = v

\* --------------------------------------------------------- objectHash ----
\* objectHash(keys): a digest of the serialised array, order-sensitive and
\* content-only (no object identity). Modelled as the positional encoding of
\* the parts, which like the digest is the same for equal sequences and
\* (collisions aside) different for different ones.
PartCode == "row1" :> 1 @@ "col1" :> 2
HashBase == Cardinality(Parts) + 1

\* a digest that forgets the order of the parts: it reads only how many
\* parts there are and how many of them are "row1"
objectHash_unordered(ks) ==
    Len(ks) + (MaxKeyLen + HashBase) * Len(SelectSeq(ks, LAMBDA p : p = "row1"))

RECURSIVE objectHash(_)
objectHash(ks) ==
    IF Len(ks) = 0 THEN 0
    ELSE PartCode[Head(ks)] + HashBase * objectHash(Tail(ks))

\* ------------------------------------------------------ MultiValueMap ----
\* MultiValueMap<K, V>: the field `map`, a native Map<K, V[]>
MultiValueMap_get(map, key) == Map_get(map, key)

\* set that moves an already present key to the end
MultiValueMap_set_movesToEnd(map, key, vals) ==
    Append(Map_delete(map, key), [key |-> key, val |-> vals])

MultiValueMap_set(map, key, vals) == Map_set(map, key, vals)

MultiValueMap_clear(map) == Map_new

MultiValueMap_values(map) == Map_values(map)

MultiValueMap_deleteByKey(map, key) == Map_delete(map, key)

\* hasValue without the test for an empty candidate
MultiValueMap_hasValue_emptyMatches(map, vals, exact) ==
    IF Len(map) = 0 THEN FALSE
    ELSE \E i \in 1..Len(map) :
            \A j \in 1..Len(vals) :
                /\ Includes(map[i].val, vals[j])
                /\ (exact => Len(map[i].val) = Len(vals))

\* for each stored array: every candidate value is included and, when exact,
\* the lengths agree; the inner loop breaks on the first failing value
MultiValueMap_hasValue(map, vals, exact) ==
    IF Len(vals) = 0 \/ Len(map) = 0 THEN FALSE
    ELSE \E i \in 1..Len(map) :
            \A j \in 1..Len(vals) :
                /\ Includes(map[i].val, vals[j])
                /\ (exact => Len(map[i].val) = Len(vals))

\* -------------------------------------------------------- MultiKeyMap ----
\* A MultiKeyMap object `self` is the record of its two private fields:
\*   keysMap  : MultiValueMap<string, K>   surrogate -> copy of the key parts
\*   valueMap : Map<string, V>             surrogate -> value
MultiKeyMap_new == [keysMap |-> Map_new, valueMap |-> Map_new]

MultiKeyMap_get(self, ks) ==
    IF Len(ks) = 0 THEN Undefined
    ELSE Map_get(self.valueMap, objectHash(ks))

\* set that leaves the value of an already registered key as it is
MultiKeyMap_set_keepsOldValue(self, ks, value) ==
    IF Len(ks) = 0 THEN self
    ELSE LET hash == objectHash(ks)
         IN  [keysMap  |-> MultiValueMap_set(self.keysMap, hash, ks),
              valueMap |-> IF Map_has(self.valueMap, hash) THEN self.valueMap
                           ELSE Map_set(self.valueMap, hash, value)]

\* set without the check for an empty key-part sequence
MultiKeyMap_set_noEmptyCheck(self, ks, value) ==
    LET hash == objectHash(ks)
    IN  [keysMap  |-> MultiValueMap_set(self.keysMap, hash, ks),
         valueMap |-> Map_set(self.valueMap, hash, value)]

\* set that removes a registered entry before storing it again
MultiKeyMap_set_deletesFirst(self, ks, value) ==
    IF Len(ks) = 0 THEN self
    ELSE LET hash == objectHash(ks)
         IN  [keysMap  |-> MultiValueMap_set(Map_delete(self.keysMap, hash), hash, ks),
              valueMap |-> Map_set(Map_delete(self.valueMap, hash), hash, value)]

\* set that stores the key parts without the first of them
MultiKeyMap_set_storesTail(self, ks, value) ==
    IF Len(ks) = 0 THEN self
    ELSE LET hash == objectHash(ks)
         IN  [keysMap  |-> MultiValueMap_set(self.keysMap, hash, Tail(ks)),
              valueMap |-> Map_set(self.valueMap, hash, value)]

\* [...keys] copies the caller's array: the stored sequence is its content
MultiKeyMap_set(self, ks, value) ==
    IF Len(ks) = 0 THEN self
    ELSE LET hash == objectHash(ks)
         IN  [keysMap  |-> MultiValueMap_set(self.keysMap, hash, ks),
              valueMap |-> Map_set(self.valueMap, hash, value)]

MultiKeyMap_clear(self) ==
    [keysMap |-> MultiValueMap_clear(self.keysMap), valueMap |-> Map_new]

MultiKeyMap_keys(self) == MultiValueMap_values(self.keysMap)

MultiKeyMap_values(self) == Map_values(self.valueMap)

\* this.keysMap.get(k) || [] : an absent key-parts entry reads as []
MultiKeyMap_entries(self) ==
    IF Len(self.valueMap) = 0 THEN << >>
    ELSE [i \in 1..Len(self.valueMap) |->
            LET k == self.valueMap[i].key
            IN  << IF Map_has(self.keysMap, k)
                   THEN MultiValueMap_get(self.keysMap, k) ELSE << >>,
                   self.valueMap[i].val >>]

MultiKeyMap_size(self) == Len(self.valueMap)

\* deleteByKey that forgets the key-parts store
MultiKeyMap_deleteByKey_valueMapOnly(self, ks) ==
    IF Len(ks) = 0 THEN [self |-> self, ret |-> FALSE]
    ELSE LET hash == objectHash(ks)
         IN  IF ~Map_has(self.valueMap, hash) THEN [self |-> self, ret |-> FALSE]
             ELSE [self |-> [keysMap  |-> self.keysMap,
                             valueMap |-> Map_delete(self.valueMap, hash)],
                   ret  |-> TRUE]

\* deleteByKey that forgets the value store
MultiKeyMap_deleteByKey_keysMapOnly(self, ks) ==
    IF Len(ks) = 0 THEN [self |-> self, ret |-> FALSE]
    ELSE LET hash == objectHash(ks)
         IN  IF ~Map_has(self.valueMap, hash) THEN [self |-> self, ret |-> FALSE]
             ELSE [self |-> [keysMap  |-> MultiValueMap_deleteByKey(self.keysMap, hash),
                             valueMap |-> self.valueMap],
                   ret  |-> TRUE]

\* deleteByKey that tests the registration with hasValue on the key parts
\* (as hasKey does) instead of the surrogate lookup
MultiKeyMap_deleteByKey_testsByParts(self, ks) ==
    IF Len(ks) = 0 THEN [self |-> self, ret |-> FALSE]
    ELSE LET hash == objectHash(ks)
         IN  IF ~MultiValueMap_hasValue(self.keysMap, ks, TRUE)
             THEN [self |-> self, ret |-> FALSE]
             ELSE [self |-> [keysMap  |-> MultiValueMap_deleteByKey(self.keysMap, hash),
                             valueMap |-> Map_delete(self.valueMap, hash)],
                   ret  |-> TRUE]

\* methods that return a value and change the object yield [self, ret]
MultiKeyMap_deleteByKey(self, ks) ==
    IF Len(ks) = 0 THEN [self |-> self, ret |-> FALSE]
    ELSE LET hash == objectHash(ks)
         IN  IF ~Map_has(self.valueMap, hash) THEN [self |-> self, ret |-> FALSE]
             ELSE [self |-> [keysMap  |-> MultiValueMap_deleteByKey(self.keysMap, hash),
                             valueMap |-> Map_delete(self.valueMap, hash)],
                   ret  |-> TRUE]

\* the for-of loop over the live valueMap.entries() iterator, from position
\* i on; deleting the entry under the cursor leaves the cursor on its
\* successor (the iterator goes on with the entries that follow)
RECURSIVE deleteByValue_loop(_, _, _, _)
deleteByValue_loop(self, i, value, result) ==
    IF i > Len(self.valueMap) THEN [self |-> self, ret |-> result]
    ELSE LET k == self.valueMap[i].key
             v == self.valueMap[i].val
         IN  IF v = value
             THEN deleteByValue_loop(
                     [keysMap  |-> MultiValueMap_deleteByKey(self.keysMap, k),
                      valueMap |-> Map_delete(self.valueMap, k)],
                     i, value, TRUE)
             ELSE deleteByValue_loop(self, i + 1, value, result)

\* deleteByValue that stops at the first match
\* (result = result || delete(...), as MultiValueMap.deleteByValue is written)
MultiKeyMap_deleteByValue_firstMatchOnly(self, value) ==
    IF ~Includes(Map_values(self.valueMap), value) THEN [self |-> self, ret |-> FALSE]
    ELSE LET i == CHOOSE i \in 1..Len(self.valueMap) :
                     /\ self.valueMap[i].val = value
                     /\ \A j \in 1..(i - 1) : self.valueMap[j].val # value
             k == self.valueMap[i].key
         IN  [self |-> [keysMap  |-> MultiValueMap_deleteByKey(self.keysMap, k),
                        valueMap |-> Map_delete(self.valueMap, k)],
              ret  |-> TRUE]

MultiKeyMap_deleteByValue(self, value) ==
    IF Len(self.valueMap) = 0 THEN [self |-> self, ret |-> FALSE]
    ELSE deleteByValue_loop(self, 1, value, FALSE)

\* for (const value of values) result = result || this.deleteByValue(value):
\* || does not evaluate its right operand once result is true
RECURSIVE deleteByValues_loop(_, _, _, _)
deleteByValues_loop(self, vals, j, result) ==
    IF j > Len(vals) THEN [self |-> self, ret |-> result]
    ELSE IF result THEN deleteByValues_loop(self, vals, j + 1, TRUE)
    ELSE LET r == MultiKeyMap_deleteByValue(self, vals[j])
         IN  deleteByValues_loop(r.self, vals, j + 1, r.ret)

MultiKeyMap_deleteByValues(self, vals) ==
    IF Len(vals) = 0 \/ Len(self.valueMap) = 0 THEN [self |-> self, ret |-> FALSE]
    ELSE deleteByValues_loop(self, vals, 1, FALSE)

MultiKeyMap_hasKey(self, ks) ==
    Len(ks) > 0 /\ MultiValueMap_hasValue(self.keysMap, ks, TRUE)

MultiKeyMap_hasKeyValue(self, ks, value) ==
    Len(ks) > 0 /\ MultiKeyMap_get(self, ks) = value

MultiKeyMap_hasValue(self, value) == Includes(MultiKeyMap_values(self), value)

\* ------------------------------------- MultiValueMap held by a caller ----
\* A MultiValueMap stores the arrays themselves: set keeps the caller's
\* array, push appends to the stored array in place, get hands the stored
\* array out. Such an object `self` is the record
\*   map  : the field map, key -> reference of the stored array
\*   heap : the arrays, by reference (references are 1..Len(heap))
\* most elements the arrays of a map are made to hold, all together
MaxLen == 3

\* keys (K) and values (V) of the MultiValueMap a caller holds
MVKeys == {"color", "position"}
MVValues == {"red", "green", "blue"}
\* the arrays callers pass
Arrays == SeqsUpTo(MVValues, MaxLen)
\* the argument lists of deleteByKeys(...keys) and deleteByValues(...values)
MVKeyArgs == SeqsUpTo(MVKeys, MaxArgs)
MVValueArgs == SeqsUpTo(MVValues, MaxArgs)
\* candidate arrays of hasValue, hasAnyValues and hasAllValues, and the
\* argument lists of hasAnyValues(...values) and hasAllValues(...values)
Candidates == {<< >>, << "red" >>, << "green" >>, << "red", "green" >>, << "red", "red" >>}
CandidateArgs == SeqsUpTo(Candidates, MaxArgs)

MultiValueMap_new == [map |-> Map_new, heap |-> << >>]

\* the references the entries hold, each once, in the order of the entries
RECURSIVE Refs(_, _)
Refs(m, n) ==
    IF n = 0 THEN << >>
    ELSE LET r == Refs(m, n - 1)
         IN  IF Includes(r, m[n].val) THEN r ELSE Append(r, m[n].val)

\* A reference is only a name: an array no entry refers to is out of the
\* map's reach and is dropped, the others are numbered in entry order.
Compact(self) ==
    LET refs == Refs(self.map, Len(self.map))
        at(r) == CHOOSE i \in 1..Len(refs) : refs[i] = r
    IN  [map  |-> [i \in 1..Len(self.map) |->
                      [key |-> self.map[i].key, val |-> at(self.map[i].val)]],
         heap |-> [i \in 1..Len(refs) |-> self.heap[refs[i]]]]

\* what the map holds now, key -> content of the stored array
Content(self) ==
    [i \in 1..Len(self.map) |->
        [key |-> self.map[i].key, val |-> self.heap[self.map[i].val]]]

\* const array = this.get(key) || []: the stored array, or a new empty one
MultiValueMap_arrayOf(self, key) ==
    IF Map_has(self.map, key)
    THEN [heap |-> self.heap, ref |-> Map_get(self.map, key)]
    ELSE [heap |-> Append(self.heap, << >>), ref |-> Len(self.heap) + 1]

\* push that stores the given values in place of the stored ones
MultiValueMap_push_replaces(self, key, vals) ==
    LET a == MultiValueMap_arrayOf(self, key)
    IN  [map  |-> Map_set(self.map, key, a.ref),
         heap |-> [a.heap EXCEPT ![a.ref] = vals]]

MultiValueMap_push(self, key, vals) ==
    LET a == MultiValueMap_arrayOf(self, key)
    IN  [map  |-> Map_set(self.map, key, a.ref),
         heap |-> [a.heap EXCEPT ![a.ref] = @ \o vals]]

\* for (const key of keys) result = result || this.map.delete(key):
\* || does not evaluate its right operand once result is true
RECURSIVE deleteByKeys_loop(_, _, _, _)
deleteByKeys_loop(m, ks, j, result) ==
    IF j > Len(ks) THEN [map |-> m, ret |-> result]
    ELSE IF result THEN deleteByKeys_loop(m, ks, j + 1, TRUE)
    ELSE deleteByKeys_loop(Map_delete(m, ks[j]), ks, j + 1, Map_has(m, ks[j]))

MultiValueMap_deleteByKeys(self, ks) ==
    IF Len(ks) = 0 \/ Len(self.map) = 0 THEN [self |-> self, ret |-> FALSE]
    ELSE LET r == deleteByKeys_loop(self.map, ks, 1, FALSE)
         IN  [self |-> [map |-> r.map, heap |-> self.heap], ret |-> r.ret]

\* for (const [key, values] of this.entries()): es is the array entries()
\* built before the loop; result = result || this.map.delete(key) deletes
\* only while result is false
RECURSIVE MultiValueMap_deleteByValue_loop(_, _, _, _, _)
MultiValueMap_deleteByValue_loop(self, es, i, value, result) ==
    IF i > Len(es) THEN [self |-> self, ret |-> result]
    ELSE IF Includes(self.heap[es[i].val], value) /\ ~result
         THEN MultiValueMap_deleteByValue_loop(
                  [map |-> Map_delete(self.map, es[i].key), heap |-> self.heap],
                  es, i + 1, value, Map_has(self.map, es[i].key))
         ELSE MultiValueMap_deleteByValue_loop(self, es, i + 1, value, result)

MultiValueMap_deleteByValue(self, value) ==
    IF Len(self.map) = 0 THEN [self |-> self, ret |-> FALSE]
    ELSE MultiValueMap_deleteByValue_loop(self, self.map, 1, value, FALSE)

RECURSIVE MultiValueMap_deleteByValues_loop(_, _, _, _)
MultiValueMap_deleteByValues_loop(self, vals, j, result) ==
    IF j > Len(vals) THEN [self |-> self, ret |-> result]
    ELSE IF result THEN MultiValueMap_deleteByValues_loop(self, vals, j + 1, TRUE)
    ELSE LET r == MultiValueMap_deleteByValue(self, vals[j])
         IN  MultiValueMap_deleteByValues_loop(r.self, vals, j + 1, r.ret)

MultiValueMap_deleteByValues(self, vals) ==
    IF Len(vals) = 0 \/ Len(self.map) = 0 THEN [self |-> self, ret |-> FALSE]
    ELSE MultiValueMap_deleteByValues_loop(self, vals, 1, FALSE)

\* deleteValueOfKey that removes the first occurrence only
MultiValueMap_deleteValueOfKey_firstOnly(self, key, value) ==
    LET a == MultiValueMap_arrayOf(self, key)
    IN  IF ~Includes(a.heap[a.ref], value) THEN [self |-> self, ret |-> FALSE]
        ELSE LET old == a.heap[a.ref]
                 p == CHOOSE i \in 1..Len(old) :
                         old[i] = value /\ \A j \in 1..(i - 1) : old[j] # value
             IN  [self |-> [map  |-> Map_set(self.map, key, Len(a.heap) + 1),
                            heap |-> Append(a.heap,
                                            SubSeq(old, 1, p - 1) \o SubSeq(old, p + 1, Len(old)))],
                  ret  |-> TRUE]

\* array.filter builds a new array, which replaces the stored one under key
MultiValueMap_deleteValueOfKey(self, key, value) ==
    LET a == MultiValueMap_arrayOf(self, key)
    IN  IF ~Includes(a.heap[a.ref], value) THEN [self |-> self, ret |-> FALSE]
        ELSE [self |-> [map  |-> Map_set(self.map, key, Len(a.heap) + 1),
                        heap |-> Append(a.heap,
                                        SelectSeq(a.heap[a.ref], LAMBDA v : v # value))],
              ret  |-> TRUE]

MultiValueMap_hasKey(self, key) == Map_has(self.map, key)

\* hasAnyValues(...values) and hasAllValues(...values) of MultiValueMap, on
\* the content m of the map: hasValue(values, exact = true) is asked for
\* each given array in turn, until the first true (any) or the first false
\* (all); as hasAnyKeys and hasAllKeys, both are false when no array is
\* given or the map is empty
RECURSIVE hasAnyValues_loop(_, _, _)
hasAnyValues_loop(m, seqs, j) ==
    IF j > Len(seqs) THEN FALSE
    ELSE IF MultiValueMap_hasValue(m, seqs[j], TRUE) THEN TRUE
    ELSE hasAnyValues_loop(m, seqs, j + 1)

MultiValueMap_hasAnyValues(m, seqs) ==
    IF Len(seqs) = 0 \/ Len(m) = 0 THEN FALSE
    ELSE hasAnyValues_loop(m, seqs, 1)

RECURSIVE hasAllValues_loop(_, _, _)
hasAllValues_loop(m, seqs, j) ==
    IF j > Len(seqs) THEN TRUE
    ELSE IF ~MultiValueMap_hasValue(m, seqs[j], TRUE) THEN FALSE
    ELSE hasAllValues_loop(m, seqs, j + 1)

MultiValueMap_hasAllValues(m, seqs) ==
    IF Len(seqs) = 0 \/ Len(m) = 0 THEN FALSE
    ELSE hasAllValues_loop(m, seqs, 1)

MultiValueMap_entries(m) == [i \in 1..Len(m) |-> << m[i].key, m[i].val >>]

\* --------------------------------------------- ReadonlyMultiValueMap ----
\* The read-only facade: its private field map is a MultiValueMap, filled
\* by the constructor with one set per given entry, in order.
RECURSIVE ReadonlyMultiValueMap_fill(_, _)
ReadonlyMultiValueMap_fill(es, n) ==
    IF n = 0 THEN Map_new
    ELSE MultiValueMap_set(ReadonlyMultiValueMap_fill(es, n - 1), es[n][1], es[n][2])

ReadonlyMultiValueMap_new(es) == [map |-> ReadonlyMultiValueMap_fill(es, Len(es))]

\* get, values and entries hand out what the inner map holds, which for a
\* map of stored arrays is the stored arrays themselves
ReadonlyMultiValueMap_get(self, key) == MultiValueMap_get(self.map, key)

ReadonlyMultiValueMap_values(self) == MultiValueMap_values(self.map)

ReadonlyMultiValueMap_entries(self) == MultiValueMap_entries(self.map)

ReadonlyMultiValueMap_hasValue(self, vals, exact) ==
    MultiValueMap_hasValue(self.map, vals, exact)

\* hasAnyValues that asks for all of the given arrays
ReadonlyMultiValueMap_hasAnyValues_asksAll(self, seqs) ==
    MultiValueMap_hasAllValues(self.map, seqs)

ReadonlyMultiValueMap_hasAnyValues(self, seqs) ==
    MultiValueMap_hasAnyValues(self.map, seqs)

ReadonlyMultiValueMap_hasAllValues(self, seqs) ==
    MultiValueMap_hasAllValues(self.map, seqs)

\* ----------------------------------------------- ReadonlyMultiKeyMap ----
\* The read-only facade: its private field map is a MultiKeyMap, filled by
\* the constructor with one set per given entry, in order.
RECURSIVE ReadonlyMultiKeyMap_fill(_, _)
ReadonlyMultiKeyMap_fill(es, n) ==
    IF n = 0 THEN MultiKeyMap_new
    ELSE MultiKeyMap_set(ReadonlyMultiKeyMap_fill(es, n - 1), es[n][1], es[n][2])

ReadonlyMultiKeyMap_new(es) == [map |-> ReadonlyMultiKeyMap_fill(es, Len(es))]

\* return this.map.get(keys, defaults): MultiKeyMap.get has the one
\* parameter keys, a second argument is not looked at
ReadonlyMultiKeyMap_get(self, ks, defaults) == MultiKeyMap_get(self.map, ks)

\* ------------------------------------------------------ state machine ----
VARIABLES
    keysMap,    \* the MultiKeyMap's field keysMap
    valueMap,   \* the MultiKeyMap's field valueMap
    lastOp,     \* the observed call: its name, arguments and result
    before,     \* the two fields as they were when the observed call was made
    map,        \* the field map of a MultiValueMap a caller holds
    heap,       \* the arrays that map's entries refer to
    mvLastOp,   \* the observed call on that MultiValueMap
    mvBefore,   \* that MultiValueMap as it was when the observed call was made
    mvLeft,     \* the arrays as the observed call left them, those out of the
                \* map's reach included
    iter,       \* the iteration over the MultiKeyMap that is under way
    mvIter,     \* the iteration over the MultiValueMap that is under way
    roBuilt,    \* what a ReadonlyMultiValueMap made of map held when constructed
    given       \* the array a caller passed as keys to MultiKeyMap.set

mkVars == << keysMap, valueMap, lastOp, before >>
mvVars == << map, heap, mvLastOp, mvBefore, mvLeft >>
vars == << mkVars, mvVars, iter, mvIter, roBuilt, given >>

this == [keysMap |-> keysMap, valueMap |-> valueMap]

\* ret is the boolean a delete call returned; a void call (set, clear) has
\* no result and carries Void there
Void == FALSE

Call(op, ks, value, vals, ret) ==
    [op |-> op, keys |-> ks, value |-> value, values |-> vals, ret |-> ret]

NoCall == Call("none", << >>, Undefined, << >>, Void)

\* a call on the MultiValueMap: the key or keys, the value, the content of
\* the array or the values given, and the boolean returned
MVCall(op, ks, value, vals, ret) ==
    [op |-> op, keys |-> ks, value |-> value, values |-> vals, ret |-> ret]

MVNoCall == MVCall("none", << >>, Undefined, << >>, Void)

\* An iteration over the MultiKeyMap:
\*   kind      : the method that runs it
\*   array     : the array this.entries() returned when the method was called
\*   index     : how many elements of the iterated array have been visited
\*   delivered : the entries the callback (or loop body) was given, in order
\*   indexes   : the index argument forEachIndexing passed, call by call
\*   returned  : what the callback returned, call by call
\*   atStart   : the map as it was when the method was called
NoIteration ==
    [kind |-> "none", array |-> << >>, index |-> 0, delivered |-> << >>,
     indexes |-> << >>, returned |-> << >>, atStart |-> MultiKeyMap_new]

\* An iteration over the MultiValueMap:
\*   kind      : the method that runs it
\*   index     : how many entries of the map lie before the iterator's position
\*   delivered : the keys the callback (or loop body) was given, in order
\*   indexes   : the index argument forEachIndexing passed, call by call
\*   returned  : what the callback returned, call by call
\*   atStart   : the keys of the map when the method was called
NoMVIteration ==
    [kind |-> "none", index |-> 0, delivered |-> << >>, indexes |-> << >>,
     returned |-> << >>, atStart |-> << >>]

\* no ReadonlyMultiValueMap has been constructed
NotBuilt == [built |-> FALSE, entries |-> << >>]

\* The array a caller passed as keys to the call set(keys, value) that is
\* followed: its reference, the parts it held then, the value, and what the
\* map held when set returned. No such call has been made:
NotGiven == [ref |-> 0, keys |-> << >>, value |-> Undefined, after |-> MultiKeyMap_new]

\* new MultiKeyMap(): both stores empty. Construction from entries is the
\* same object after one set per entry (the Set steps that follow).
Init ==
    /\ keysMap = Map_new
    /\ valueMap = Map_new
    /\ lastOp = NoCall
    /\ before = MultiKeyMap_new
    /\ map = Map_new
    /\ heap = << >>
    /\ mvLastOp = MVNoCall
    /\ mvBefore = MultiValueMap_new
    /\ iter = NoIteration
    /\ mvIter = NoMVIteration
    /\ mvLeft = << >>
    /\ roBuilt = NotBuilt
    /\ given = NotGiven

\* A behaviour is any sequence of calls on the map. lastOp and before are
\* history variables describing one call of it, the observed one (watch):
\* every call of every behaviour is the observed call of some behaviour.
\* Nothing is explored past the observed call, the same calls being explored
\* from the unobserved state with the same two fields.
Unobserved == lastOp.op = "none"

Becomes(self, call) ==
    /\ keysMap' = self.keysMap
    /\ valueMap' = self.valueMap
    /\ \E watch \in BOOLEAN :
          /\ lastOp' = IF watch THEN call ELSE NoCall
          /\ before' = IF watch THEN this ELSE MultiKeyMap_new
    /\ UNCHANGED << mvVars, iter, mvIter, roBuilt, given >>

Set ==
    /\ Unobserved
    /\ \E ks \in KeySeqs, value \in Values :
          LET self == MultiKeyMap_set(this, ks, value)
          IN  /\ MultiKeyMap_size(self) <= MaxSize
              /\ Becomes(self, Call("set", ks, value, << >>, Void))

Clear ==
    /\ Unobserved
    /\ Becomes(MultiKeyMap_clear(this), Call("clear", << >>, Undefined, << >>, Void))

DeleteByKey ==
    /\ Unobserved
    /\ \E ks \in KeySeqs :
          LET r == MultiKeyMap_deleteByKey(this, ks)
          IN  Becomes(r.self, Call("deleteByKey", ks, Undefined, << >>, r.ret))

DeleteByValue ==
    /\ Unobserved
    /\ \E value \in Values :
          LET r == MultiKeyMap_deleteByValue(this, value)
          IN  Becomes(r.self, Call("deleteByValue", << >>, value, << >>, r.ret))

DeleteByValues ==
    /\ Unobserved
    /\ \E vals \in ValueArgs :
          LET r == MultiKeyMap_deleteByValues(this, vals)
          IN  Becomes(r.self, Call("deleteByValues", << >>, Undefined, vals, r.ret))

Next ==
    \/ Set
    \/ Clear
    \/ DeleteByKey
    \/ DeleteByValue
    \/ DeleteByValues

Spec == Init /\ [][Next]_vars

\* ------------------------------- state machine of the MultiValueMap ----
\* the MultiValueMap a caller holds
mv == [map |-> map, heap |-> heap]

MVUnobserved == mvLastOp.op = "none"

\* as Becomes: the call leaves the object self, and is the observed call or not
MVBecomes(self, call) ==
    /\ LET c == Compact(self)
       IN  map' = c.map /\ heap' = c.heap
    /\ \E watch \in BOOLEAN :
          /\ mvLastOp' = IF watch THEN call ELSE MVNoCall
          /\ mvBefore' = IF watch THEN mv ELSE MultiValueMap_new
          /\ mvLeft' = IF watch THEN self.heap ELSE << >>
    /\ UNCHANGED << mkVars, iter, mvIter, roBuilt, given >>

RECURSIVE Elems(_, _)
Elems(h, n) == IF n = 0 THEN 0 ELSE Len(h[n]) + Elems(h, n - 1)

\* the arrays the object holds stay within the bound
Fits(self) ==
    LET h == Compact(self).heap
    IN  Elems(h, Len(h)) <= MaxLen

\* map.set(key, values) with an array the caller made
MV_Set ==
    /\ MVUnobserved
    /\ \E key \in MVKeys, vals \in Arrays :
          LET self == [map  |-> MultiValueMap_set(map, key, Len(heap) + 1),
                       heap |-> Append(heap, vals)]
          IN  /\ Fits(self)
              /\ MVBecomes(self, MVCall("set", << key >>, Undefined, vals, Void))

\* map.set(key, map.get(key2)): the array given is one the map stores
MV_SetStored ==
    /\ MVUnobserved
    /\ \E key \in MVKeys, i \in 1..Len(map) :
          MVBecomes([map  |-> MultiValueMap_set(map, key, map[i].val),
                     heap |-> heap],
                    MVCall("set", << key >>, Undefined, heap[map[i].val], Void))

MV_Push ==
    /\ MVUnobserved
    /\ \E key \in MVKeys, vals \in Arrays :
          LET self == MultiValueMap_push(mv, key, vals)
          IN  /\ Fits(self)
              /\ MVBecomes(self, MVCall("push", << key >>, Undefined, vals, Void))

MV_Clear ==
    /\ MVUnobserved
    /\ MVBecomes([map |-> MultiValueMap_clear(map), heap |-> heap],
                 MVCall("clear", << >>, Undefined, << >>, Void))

MV_DeleteByKey ==
    /\ MVUnobserved
    /\ \E key \in MVKeys :
          MVBecomes([map |-> MultiValueMap_deleteByKey(map, key), heap |-> heap],
                    MVCall("deleteByKey", << key >>, Undefined, << >>, Map_has(map, key)))

MV_DeleteByKeys ==
    /\ MVUnobserved
    /\ \E ks \in MVKeyArgs :
          LET r == MultiValueMap_deleteByKeys(mv, ks)
          IN  MVBecomes(r.self, MVCall("deleteByKeys", ks, Undefined, << >>, r.ret))

MV_DeleteByValue ==
    /\ MVUnobserved
    /\ \E value \in MVValues :
          LET r == MultiValueMap_deleteByValue(mv, value)
          IN  MVBecomes(r.self, MVCall("deleteByValue", << >>, value, << >>, r.ret))

MV_DeleteByValues ==
    /\ MVUnobserved
    /\ \E vals \in MVValueArgs :
          LET r == MultiValueMap_deleteByValues(mv, vals)
          IN  MVBecomes(r.self, MVCall("deleteByValues", << >>, Undefined, vals, r.ret))

MV_DeleteValueOfKey ==
    /\ MVUnobserved
    /\ \E key \in MVKeys, value \in MVValues :
          LET r == MultiValueMap_deleteValueOfKey(mv, key, value)
          IN  MVBecomes(r.self, MVCall("deleteValueOfKey", << key >>, value, << >>, r.ret))

NextMV ==
    \/ MV_Set
    \/ MV_SetStored
    \/ MV_Push
    \/ MV_Clear
    \/ MV_DeleteByKey
    \/ MV_DeleteByKeys
    \/ MV_DeleteByValue
    \/ MV_DeleteByValues
    \/ MV_DeleteValueOfKey

SpecMV == Init /\ [][NextMV]_vars

\* ------------------------- state machine of MultiKeyMap iteration ----
\* the keys callers register in the map that is iterated
IterKeys == {<< "row1" >>, << "row1", "col1" >>, << "col1", "row1" >>}

Idle == iter.kind = "none"

\* the map is filled, before the iteration, by calls of set
It_Set ==
    /\ Idle
    /\ \E ks \in IterKeys, value \in Values :
          LET self == MultiKeyMap_set(this, ks, value)
          IN  /\ MultiKeyMap_size(self) <= MaxSize
              /\ keysMap' = self.keysMap
              /\ valueMap' = self.valueMap
    /\ UNCHANGED << lastOp, before, mvVars, iter, mvIter, roBuilt, given >>

\* this.entries().forEach(...), this.entries()[Symbol.iterator](): the
\* method builds the array of entries and iterates that array
Begin(kind) ==
    /\ Idle
    /\ iter' = [NoIteration EXCEPT !.kind = kind,
                                   !.array = MultiKeyMap_entries(this),
                                   !.atStart = this]
    /\ UNCHANGED << mkVars, mvVars, mvIter, roBuilt, given >>

ForEach == Begin("forEach")

ForEachIndexing == Begin("forEachIndexing")

ForEachBreakable == Begin("forEachBreakable")

SymbolIterator == Begin("Symbol.iterator")

\* iteration that reads the entries of the map anew at every step
Iterated_live(array, self) == MultiKeyMap_entries(self)

\* the array the iteration walks: the one entries() returned at the start
Iterated(array, self) == array

\* what a callback or loop body does with the map it is given: nothing, or
\* one call of set, deleteByKey, deleteByValue or clear
Bodies ==
    {[op |-> "nothing", keys |-> << >>, value |-> Undefined]}
        \cup {[op |-> "set", keys |-> ks, value |-> v] : ks \in IterKeys, v \in Values}
        \cup {[op |-> "deleteByKey", keys |-> ks, value |-> Undefined] : ks \in IterKeys}
        \cup {[op |-> "deleteByValue", keys |-> << >>, value |-> v] : v \in Values}
        \cup {[op |-> "clear", keys |-> << >>, value |-> Undefined]}

Run(body, self) ==
    CASE body.op = "nothing" -> self
      [] body.op = "set" -> MultiKeyMap_set(self, body.keys, body.value)
      [] body.op = "deleteByKey" -> MultiKeyMap_deleteByKey(self, body.keys).self
      [] body.op = "deleteByValue" -> MultiKeyMap_deleteByValue(self, body.value).self
      [] body.op = "clear" -> MultiKeyMap_clear(self)

\* index++ evaluated before the increment
PassedIndex_preIncrement(calls) == calls + 1

\* let index = 0; ... callback(value, keys, index++, this): the argument is
\* the value index had before the increment, the number of earlier calls
PassedIndex(calls) == calls

\* the iteration has visited every element of the array it walks
Done == ~Idle /\ iter.index >= Len(Iterated(iter.array, this))

\* One step of the iteration: the next element is handed to the callback,
\* which runs its body and returns. forEachBreakable tests the result, and
\* the return that follows leaves the arrow function given to
\* Array.forEach, not the loop: the next element is visited all the same.
\* The other methods ignore the result (Void). The callback is one of
\* those whose body is in bodies.
Invoke(bodies) ==
    /\ ~Idle
    /\ ~Done
    /\ \E body \in bodies, ret \in BOOLEAN :
          LET self == Run(body, this)
              entry == Iterated(iter.array, this)[iter.index + 1]
          IN  /\ iter.kind # "forEachBreakable" => ret = Void
              /\ MultiKeyMap_size(self) <= MaxSize
              /\ keysMap' = self.keysMap
              /\ valueMap' = self.valueMap
              /\ iter' = [iter EXCEPT !.index = @ + 1,
                                      !.delivered = Append(@, entry),
                                      !.indexes = Append(@, PassedIndex(Len(iter.delivered))),
                                      !.returned = Append(@, ret)]
    /\ UNCHANGED << lastOp, before, mvVars, mvIter, roBuilt, given >>

\* a step of the iteration, for every callback
Callback == Invoke(Bodies)

NextIter ==
    \/ It_Set
    \/ ForEach
    \/ ForEachIndexing
    \/ ForEachBreakable
    \/ SymbolIterator
    \/ Callback

SpecIter == Init /\ [][NextIter]_vars

\* ----------------------- state machine of MultiValueMap iteration ----
\* most callback invocations of one iteration that are followed
MaxCalls == 3

\* the arrays given to set and push before and during an iteration
IterArrays == {<< >>, << "red" >>}

MVIdle == mvIter.kind = "none"

\* the map is filled, before the iteration, by calls of set
MVIt_Set ==
    /\ MVIdle
    /\ \E key \in MVKeys, vals \in IterArrays :
          LET self == Compact([map  |-> MultiValueMap_set(map, key, Len(heap) + 1),
                               heap |-> Append(heap, vals)])
          IN  /\ Fits(self)
              /\ map' = self.map
              /\ heap' = self.heap
    /\ UNCHANGED << mkVars, mvLastOp, mvBefore, mvLeft, iter, mvIter, roBuilt, given >>

\* this.map.forEach(...), this.map[Symbol.iterator](): the method iterates
\* the native Map itself, from its first entry
MVBegin(kind) ==
    /\ MVIdle
    /\ mvIter' = [NoMVIteration EXCEPT !.kind = kind, !.atStart = Map_keys(map)]
    /\ UNCHANGED << mkVars, mvVars, iter, roBuilt, given >>

MV_ForEach == MVBegin("forEach")

MV_ForEachIndexing == MVBegin("forEachIndexing")

MV_ForEachBreakable == MVBegin("forEachBreakable")

MV_SymbolIterator == MVBegin("Symbol.iterator")

\* Map.prototype.forEach and the Map iterator walk the live list of
\* entries: an entry deleted before its turn is not visited, an entry added
\* during the walk is appended and visited, a key deleted and set again is
\* a new entry at the end. index counts the entries before the position:
\* deleting a visited entry moves the position one down, clear moves it to
\* the start of the (empty) list.
Map_indexAfter(m, index, after) ==
    Cardinality({i \in 1..index : Map_has(after, m[i].key)})

\* what a callback or loop body does with the map while key is visited:
\* nothing, or one call of set, push, deleteByKey or clear, or deleteByKey
\* of the visited key followed by set of that key
MVBodies ==
    {[op |-> "nothing", key |-> Undefined, values |-> << >>]}
        \cup {[op |-> o, key |-> k, values |-> a] :
                  o \in {"set", "push"}, k \in MVKeys, a \in IterArrays}
        \cup {[op |-> "deleteByKey", key |-> k, values |-> << >>] : k \in MVKeys}
        \cup {[op |-> "clear", key |-> Undefined, values |-> << >>]}
        \cup {[op |-> "deleteByKey;set", key |-> Undefined, values |-> a] : a \in IterArrays}

\* the map after the first call of the body, if that call deletes
MVRunDelete(body, self, visited) ==
    CASE body.op = "deleteByKey" ->
            [map |-> MultiValueMap_deleteByKey(self.map, body.key), heap |-> self.heap]
      [] body.op = "clear" ->
            [map |-> MultiValueMap_clear(self.map), heap |-> self.heap]
      [] body.op = "deleteByKey;set" ->
            [map |-> MultiValueMap_deleteByKey(self.map, visited), heap |-> self.heap]
      [] OTHER -> self

\* the map after the call of the body that follows, if that call stores
MVRunStore(body, self, visited) ==
    CASE body.op = "set" ->
            [map  |-> MultiValueMap_set(self.map, body.key, Len(self.heap) + 1),
             heap |-> Append(self.heap, body.values)]
      [] body.op = "push" -> MultiValueMap_push(self, body.key, body.values)
      [] body.op = "deleteByKey;set" ->
            [map  |-> MultiValueMap_set(self.map, visited, Len(self.heap) + 1),
             heap |-> Append(self.heap, body.values)]
      [] OTHER -> self

\* the walk has reached the end of the list of entries
MVDone == ~MVIdle /\ mvIter.index >= Len(map)

\* One step of the iteration: the entry at the position is handed to the
\* callback, which runs its body and returns; forEachIndexing passes index++.
\* As in MultiKeyMap, the return in forEachBreakable leaves the arrow
\* function only. The callback is one of those whose body is in bodies.
MV_Invoke(bodies) ==
    /\ ~MVIdle
    /\ ~MVDone
    /\ Len(mvIter.delivered) < MaxCalls
    /\ \E body \in bodies, ret \in BOOLEAN :
          LET visited == map[mvIter.index + 1].key
              deleted == MVRunDelete(body, mv, visited)
              self == MVRunStore(body, deleted, visited)
              c == Compact(self)
          IN  /\ mvIter.kind # "forEachBreakable" => ret = Void
              /\ Fits(self)
              /\ map' = c.map
              /\ heap' = c.heap
              /\ mvIter' = [mvIter EXCEPT
                               !.index = Map_indexAfter(map, mvIter.index + 1, deleted.map),
                               !.delivered = Append(@, visited),
                               !.indexes = Append(@, PassedIndex(Len(mvIter.delivered))),
                               !.returned = Append(@, ret)]
    /\ UNCHANGED << mkVars, mvLastOp, mvBefore, mvLeft, iter, roBuilt, given >>

\* a step of the iteration, for every callback
MV_Callback == MV_Invoke(MVBodies)

NextMVIter ==
    \/ MVIt_Set
    \/ MV_ForEach
    \/ MV_ForEachIndexing
    \/ MV_ForEachBreakable
    \/ MV_SymbolIterator
    \/ MV_Callback

SpecMVIter == Init /\ [][NextMVIter]_vars

\* ------------- state machine of iterations whose callback only reads ----
\* callbacks and loop bodies that call no operation of the map
Reads == {body \in Bodies : body.op = "nothing"}

MVReads == {body \in MVBodies : body.op = "nothing"}

Callback_reading == Invoke(Reads)

MV_Callback_reading == MV_Invoke(MVReads)

\* a MultiKeyMap and a MultiValueMap are filled, then each is iterated by
\* forEachIndexing or by a for-of loop
NextRead ==
    \/ It_Set
    \/ ForEachIndexing
    \/ SymbolIterator
    \/ Callback_reading
    \/ MVIt_Set
    \/ MV_ForEachIndexing
    \/ MV_SymbolIterator
    \/ MV_Callback_reading

SpecRead == Init /\ [][NextRead]_vars

\* --------------- state machine of a ReadonlyMultiValueMap and its caller ----
\* the read-only facade whose inner MultiValueMap has the field map
roMap == ReadonlyMultiValueMap_new(MultiValueMap_entries(map))

\* the content of the arrays a call of values() or entries() hands out
Deref(h, refs) == [i \in 1..Len(refs) |-> h[refs[i]]]

\* what the caller reads from the facade: the entries, by content
RO_content ==
    LET es == ReadonlyMultiValueMap_entries(roMap)
    IN  [i \in 1..Len(es) |-> << es[i][1], heap[es[i][2]] >>]

\* the entries a caller passes to the constructor
GivenEntries == SeqsUpTo(MVKeys \X IterArrays, MaxSize)

\* new ReadonlyMultiValueMap(entries): the caller makes one array per entry
\* (heap[i] is the array of entry i) and the constructor sets each
RO_Construct ==
    /\ ~roBuilt.built
    /\ \E es \in GivenEntries :
          LET h == [i \in 1..Len(es) |-> es[i][2]]
              self == ReadonlyMultiValueMap_new([i \in 1..Len(es) |-> << es[i][1], i >>])
              content == [i \in 1..Len(self.map) |->
                            << self.map[i].key, h[self.map[i].val] >>]
          IN  /\ heap' = h
              /\ map' = self.map
              /\ roBuilt' = [built |-> TRUE, entries |-> content]
    /\ UNCHANGED << mkVars, mvLastOp, mvBefore, mvLeft, iter, mvIter, given >>

\* the caller appends an element to an array it passed to the constructor
RO_CallerPushesGiven ==
    /\ roBuilt.built
    /\ \E ref \in 1..Len(heap), v \in MVValues :
          /\ Elems(heap, Len(heap)) < MaxLen
          /\ heap' = [heap EXCEPT ![ref] = Append(@, v)]
    /\ UNCHANGED << mkVars, map, mvLastOp, mvBefore, mvLeft, iter, mvIter, roBuilt, given >>

\* the caller appends an element to an array it received from get(key),
\* or found in the result of values() or entries()
RO_CallerPushesReceived ==
    /\ roBuilt.built
    /\ \E key \in MVKeys, v \in MVValues :
          /\ Map_has(roMap.map, key)
          /\ Elems(heap, Len(heap)) < MaxLen
          /\ heap' = [heap EXCEPT ![ReadonlyMultiValueMap_get(roMap, key)] = Append(@, v)]
    /\ UNCHANGED << mkVars, map, mvLastOp, mvBefore, mvLeft, iter, mvIter, roBuilt, given >>

NextRO ==
    \/ RO_Construct
    \/ RO_CallerPushesGiven
    \/ RO_CallerPushesReceived

SpecRO == Init /\ [][NextRO]_vars

\* ----------------- state machine of a MultiKeyMap and its caller's array ----
\* Here the key-parts store holds the arrays by reference (keysMap:
\* surrogate -> reference into heap), so that the array a caller passed to
\* set and the array the map stored can be told apart.

\* set that stores the caller's array itself
Spread_same(h, ref) == [heap |-> h, ref |-> ref]

\* [...keys]: a new array with the elements of keys
Spread(h, ref) == [heap |-> Append(h, h[ref]), ref |-> Len(h) + 1]

\* set(keys, value) where keys is the array heap[ref]
MultiKeyMap_setArray(self, h, ref, value) ==
    IF Len(h[ref]) = 0 THEN [keysMap |-> self.keysMap, valueMap |-> self.valueMap, heap |-> h]
    ELSE LET hash == objectHash(h[ref])
             copy == Spread(h, ref)
         IN  [keysMap  |-> MultiValueMap_set(self.keysMap, hash, copy.ref),
              valueMap |-> Map_set(self.valueMap, hash, value),
              heap     |-> copy.heap]

\* the map as its methods read it: each stored array by its content
Own_view ==
    [keysMap  |-> [i \in 1..Len(keysMap) |->
                      [key |-> keysMap[i].key, val |-> heap[keysMap[i].val]]],
     valueMap |-> valueMap]

Untracked == given.ref = 0

\* set(keys, value) with an array the caller makes for the call and drops
Own_Set ==
    /\ Untracked
    /\ \E ks \in IterKeys, value \in Values :
          LET self == MultiKeyMap_setArray(this, Append(heap, ks), Len(heap) + 1, value)
              c == Compact([map |-> self.keysMap, heap |-> self.heap])
          IN  /\ Len(self.valueMap) <= MaxSize
              /\ keysMap' = c.map
              /\ valueMap' = self.valueMap
              /\ heap' = c.heap
    /\ UNCHANGED << lastOp, before, map, mvLastOp, mvBefore, mvLeft, iter, mvIter, roBuilt, given >>

\* set(keys, value) with an array the caller keeps: the call that is followed
Own_SetKept ==
    /\ Untracked
    /\ \E ks \in IterKeys, value \in Values :
          LET self == MultiKeyMap_setArray(this, Append(heap, ks), Len(heap) + 1, value)
          IN  /\ Len(self.valueMap) <= MaxSize
              /\ keysMap' = self.keysMap
              /\ valueMap' = self.valueMap
              /\ heap' = self.heap
              /\ given' = [ref |-> Len(heap) + 1, keys |-> ks, value |-> value,
                           after |-> [keysMap  |-> [i \in 1..Len(self.keysMap) |->
                                                      [key |-> self.keysMap[i].key,
                                                       val |-> self.heap[self.keysMap[i].val]]],
                                      valueMap |-> self.valueMap]]
    /\ UNCHANGED << lastOp, before, map, mvLastOp, mvBefore, mvLeft, iter, mvIter, roBuilt >>

\* the caller changes an element of its array
Own_CallerChanges ==
    /\ ~Untracked
    /\ \E i \in 1..Len(heap[given.ref]), part \in Parts :
          heap' = [heap EXCEPT ![given.ref][i] = part]
    /\ UNCHANGED << mkVars, map, mvLastOp, mvBefore, mvLeft, iter, mvIter, roBuilt, given >>

\* the caller adds an element to its array
Own_CallerAdds ==
    /\ ~Untracked
    /\ Len(heap[given.ref]) < MaxKeyLen
    /\ \E part \in Parts :
          heap' = [heap EXCEPT ![given.ref] = Append(@, part)]
    /\ UNCHANGED << mkVars, map, mvLastOp, mvBefore, mvLeft, iter, mvIter, roBuilt, given >>

\* the caller removes the last element of its array
Own_CallerRemoves ==
    /\ ~Untracked
    /\ Len(heap[given.ref]) > 0
    /\ heap' = [heap EXCEPT ![given.ref] = SubSeq(@, 1, Len(@) - 1)]
    /\ UNCHANGED << mkVars, map, mvLastOp, mvBefore, mvLeft, iter, mvIter, roBuilt, given >>

NextOwn ==
    \/ Own_Set
    \/ Own_SetKept
    \/ Own_CallerChanges
    \/ Own_CallerAdds
    \/ Own_CallerRemoves

SpecOwn == Init /\ [][NextOwn]_vars

\* ------------------------------------------------------------ claims ----
\* what a caller sees of a map
size == MultiKeyMap_size(this)
keys == MultiKeyMap_keys(this)
values == MultiKeyMap_values(this)
entries == MultiKeyMap_entries(this)

\* the map holds an entry whose key-part sequence is element-wise equal to ks
Registered(self, ks) == Includes(MultiKeyMap_keys(self), ks)

\* the value of the entry registered under ks
ValueOf(self, ks) ==
    LET es == MultiKeyMap_entries(self)
    IN  es[CHOOSE i \in 1..Len(es) : es[i][1] = ks][2]

Observed(op) == lastOp.op = op

\* C1: round trip. Right after set(k, v) with a non-empty k, get(k2) returns
\* v for every key-part sequence k2 with the same parts in the same order,
\* whatever the map held when set was called.
C1_RoundTrip ==
    (Observed("set") /\ Len(lastOp.keys) > 0) =>
        \A k2 \in KeySeqs :
            (Len(k2) = Len(lastOp.keys) /\ \A i \in 1..Len(k2) : k2[i] = lastOp.keys[i])
                => MultiKeyMap_get(this, k2) = lastOp.value

\* C1 witness: a set of a two-part key that was registered with another value
C1_Witness ==
    /\ Observed("set")
    /\ Len(lastOp.keys) = 2
    /\ Registered(before, lastOp.keys)
    /\ ValueOf(before, lastOp.keys) # lastOp.value
    /\ MultiKeyMap_size(before) = 2

\* C2: two-map invariant. In every reachable state the surrogates of keysMap
\* are the surrogates of valueMap, and the two stores have as many entries.
C2_TwoMapInvariant ==
    /\ {keysMap[i].key : i \in 1..Len(keysMap)} = {valueMap[i].key : i \in 1..Len(valueMap)}
    /\ Len(keysMap) = Len(valueMap)

\* C2 witness: a delete call removed one of two entries
C2_Witness ==
    /\ lastOp.op \in {"deleteByKey", "deleteByValue", "deleteByValues"}
    /\ lastOp.ret
    /\ MultiKeyMap_size(before) = 2
    /\ size = 1

\* C3: hasKey(k) is true exactly when an entry with the key-part sequence k
\* (same parts, same order) is registered, that is when get(k) addresses a
\* live entry.
C3_HasKeyIffRegistered ==
    \A ks \in KeySeqs :
        MultiKeyMap_hasKey(this, ks)
            <=> (Registered(this, ks) /\ Map_has(valueMap, objectHash(ks)))

\* C4: an empty key-part sequence is rejected without error. set([], v)
\* leaves size, keys(), values() and entries() as they were; get([]) is
\* absent; deleteByKey() with no part returns false and changes nothing;
\* hasKey([]) and hasKeyValue([], v) are false.
C4_EmptyKeysRejected ==
    /\ (Observed("set") /\ lastOp.keys = << >>) =>
            /\ size = MultiKeyMap_size(before)
            /\ keys = MultiKeyMap_keys(before)
            /\ values = MultiKeyMap_values(before)
            /\ entries = MultiKeyMap_entries(before)
            /\ this = before
    /\ MultiKeyMap_get(this, << >>) = Undefined
    /\ (Observed("deleteByKey") /\ lastOp.keys = << >>) =>
            (~lastOp.ret /\ this = before)
    /\ ~MultiKeyMap_hasKey(this, << >>)
    /\ \A v \in Values \cup {Undefined} : ~MultiKeyMap_hasKeyValue(this, << >>, v)

\* C4 witness: set([], v) was called on a map of two entries
C4_Witness ==
    /\ Observed("set")
    /\ lastOp.keys = << >>
    /\ MultiKeyMap_size(before) = 2

\* C5: deleteByKey is idempotent. On a key that is not registered it returns
\* false and leaves size and every entry as they were; on a registered key
\* it returns true, and called again at once on the same key it returns false.
C5_DeleteByKeyIdempotent ==
    /\ (Observed("deleteByKey") /\ ~Registered(before, lastOp.keys)) =>
            /\ ~lastOp.ret
            /\ size = MultiKeyMap_size(before)
            /\ entries = MultiKeyMap_entries(before)
    /\ (Observed("deleteByKey") /\ Registered(before, lastOp.keys)) =>
            /\ lastOp.ret
            /\ ~MultiKeyMap_deleteByKey(this, lastOp.keys).ret

\* C5 witness: deleteByKey of a key that is not registered, while a
\* permutation of it is
C5_Witness ==
    /\ Observed("deleteByKey")
    /\ Len(lastOp.keys) = 2
    /\ ~Registered(before, lastOp.keys)
    /\ Registered(before, << lastOp.keys[2], lastOp.keys[1] >>)

C8_DeleteByValuesAll ==
    Observed("deleteByValues") =>
        /\ \A i \in 1..Len(values) : ~Includes(lastOp.values, values[i])
        /\ entries = SelectSeq(MultiKeyMap_entries(before),
                               LAMBDA e : ~Includes(lastOp.values, e[2]))
        /\ lastOp.ret = (size < MultiKeyMap_size(before))

\* C9: keys(), values() and entries() have the length size and are aligned,
\* entries()[i] = [keys()[i], values()[i]]; the order is that of the first
\* insertion of the live keys: a call keeps the relative order of the keys
\* it leaves registered and puts a key it registers after all of them.
C9_AlignedInsertionOrder ==
    LET ks == keys
        vs == values
        es == entries
        old == MultiKeyMap_keys(before)
    IN  /\ Len(ks) = size
        /\ Len(vs) = size
        /\ Len(es) = size
        /\ \A i \in 1..size : es[i] = << ks[i], vs[i] >>
        /\ ~Observed("none") =>
              /\ SelectSeq(ks, LAMBDA k : Includes(old, k))
                    = SelectSeq(old, LAMBDA k : Includes(ks, k))
              /\ \A i, j \in 1..Len(ks) :
                    (i < j /\ ~Includes(old, ks[i])) => ~Includes(old, ks[j])

\* C9 witness: a set registered a second key, after the one already there
C9_Witness ==
    /\ Observed("set")
    /\ MultiKeyMap_size(before) = 1
    /\ size = 2
    /\ keys[2] = lastOp.keys
    /\ keys[1] = MultiKeyMap_keys(before)[1]

\* C10: set(k, v2) on a registered key replaces the value of that entry and
\* nothing else: get(k) = v2, size and keys() are as before (the entry
\* keeps its place), and every other key keeps its value.
C10_SetReplacesValueOnly ==
    (Observed("set") /\ Registered(before, lastOp.keys)) =>
        /\ MultiKeyMap_get(this, lastOp.keys) = lastOp.value
        /\ size = MultiKeyMap_size(before)
        /\ keys = MultiKeyMap_keys(before)
        /\ LET old == MultiKeyMap_keys(before)
           IN  \A i \in 1..Len(old) :
                  old[i] # lastOp.keys =>
                      MultiKeyMap_get(this, old[i]) = MultiKeyMap_get(before, old[i])
        /\ LET old == MultiKeyMap_entries(before)
           IN  entries = [i \in 1..Len(old) |->
                            IF old[i][1] = lastOp.keys
                            THEN << lastOp.keys, lastOp.value >>
                            ELSE old[i]]

\* C10 witness: the first of two entries was set to another value
C10_Witness ==
    /\ Observed("set")
    /\ MultiKeyMap_size(before) = 2
    /\ MultiKeyMap_keys(before)[1] = lastOp.keys
    /\ MultiKeyMap_values(before)[1] # lastOp.value

\* C11: hasKeyValue(k, v) is true exactly when an entry with the key-part
\* sequence k is registered and its stored value is v; for a k that is not
\* registered it is false whatever v is, the absent value included.
C11_HasKeyValueIffPair ==
    \A ks \in KeySeqs, v \in Values \cup {Undefined} :
        MultiKeyMap_hasKeyValue(this, ks, v)
            <=> (Registered(this, ks) /\ ValueOf(this, ks) = v)

\* the read-only facade made from the entries of the MultiKeyMap
rk == ReadonlyMultiKeyMap_new(entries)

\* C22: on the read-only facade, get(k, defaults) returns the stored value
\* when k is registered and defaults when k is not found.
C22_GetOrDefaults ==
    \A ks \in KeySeqs, defaults \in Values :
        ReadonlyMultiKeyMap_get(rk, ks, defaults)
            = IF Registered(this, ks) THEN ValueOf(this, ks) ELSE defaults

\* ------------------------------------- claims on the MultiValueMap ----
\* what a caller sees of the MultiValueMap
mvContent == Content(mv)
mvContentBefore == Content(mvBefore)

MVObserved(op) == mvLastOp.op = op

\* the content stored under key (key is present)
Stored(content, key) == Map_get(content, key)

\* how often v occurs in array
Count(array, v) == Cardinality({i \in 1..Len(array) : array[i] = v})

\* the same elements with the same multiplicities
SameMultiset(a, b) == \A v \in MVValues : Count(a, v) = Count(b, v)

\* C12: hasValue(c, exact=true) is true exactly when some stored sequence
\* equals the candidate c as a multiset (the same elements with the same
\* multiplicities); stated for the non-empty candidates.
C12_HasValueExactIsMultisetEquality ==
    \A c \in Arrays :
        Len(c) > 0 =>
            (MultiValueMap_hasValue(mvContent, c, TRUE)
                <=> \E i \in 1..Len(mvContent) : SameMultiset(mvContent[i].val, c))

\* the elements of array
Elements(array) == {array[i] : i \in 1..Len(array)}

\* C13: hasValue(c, exact=false) is true exactly when c is non-empty and
\* some stored sequence contains every element of c, whatever its length;
\* an empty candidate matches in neither mode, also when the map is
\* non-empty or stores an empty sequence. hasValue is a query: it is
\* asked of the map between two calls (the map an observed call leaves is
\* also the map of a state between calls).
C13_HasValueInexactIsContainment ==
    MVUnobserved =>
        /\ \A c \in Arrays :
              MultiValueMap_hasValue(mvContent, c, FALSE)
                  <=> /\ Len(c) > 0
                      /\ \E i \in 1..Len(mvContent) :
                            Elements(c) \subseteq Elements(mvContent[i].val)
        /\ ~MultiValueMap_hasValue(mvContent, << >>, FALSE)
        /\ ~MultiValueMap_hasValue(mvContent, << >>, TRUE)

\* C13 witness: the map stores an empty sequence and a longer one, which a
\* shorter candidate matches with exact=false and not with exact=true
C13_Witness ==
    /\ MVUnobserved
    /\ Len(mvContent) = 2
    /\ mvContent[1].val = << >>
    /\ Len(mvContent[2].val) = 3
    /\ MultiValueMap_hasValue(mvContent, << mvContent[2].val[1] >>, FALSE)
    /\ ~MultiValueMap_hasValue(mvContent, << mvContent[2].val[1] >>, TRUE)

\* C14: deleteByValue(v) removes every entry whose sequence contains v:
\* afterwards no stored sequence contains v (also when two or more did),
\* the entries whose sequence does not contain v are as they were, and the
\* result is true exactly when some sequence contained v.
C14_DeleteByValueRemovesEvery ==
    MVObserved("deleteByValue") =>
        /\ \A i \in 1..Len(mvContent) : ~Includes(mvContent[i].val, mvLastOp.value)
        /\ mvContent = SelectSeq(mvContentBefore,
                                 LAMBDA e : ~Includes(e.val, mvLastOp.value))
        /\ mvLastOp.ret = \E i \in 1..Len(mvContentBefore) :
                              Includes(mvContentBefore[i].val, mvLastOp.value)

\* C15: deleteByKeys(k1, ..., kn) removes each of the given keys: afterwards
\* hasKey(ki) is false for every i (also when several were present), the
\* keys not listed are as they were, and the result is true exactly when
\* one of the keys was present.
C15_DeleteByKeysRemovesEach ==
    MVObserved("deleteByKeys") =>
        /\ \A i \in 1..Len(mvLastOp.keys) : ~MultiValueMap_hasKey(mv, mvLastOp.keys[i])
        /\ mvContent = SelectSeq(mvContentBefore,
                                 LAMBDA e : ~Includes(mvLastOp.keys, e.key))
        /\ mvLastOp.ret = \E i \in 1..Len(mvLastOp.keys) :
                              MultiValueMap_hasKey(mvBefore, mvLastOp.keys[i])

\* C16: push(key, values) appends. If key is present with sequence s,
\* afterwards get(key) is s followed by values in the given order,
\* duplicates kept; if key is absent the entry is created, get(key) is
\* values and size has grown by one, also when values is empty.
C16_PushAppends ==
    MVObserved("push") =>
        LET key == mvLastOp.keys[1]
        IN  /\ MultiValueMap_hasKey(mv, key)
            /\ MultiValueMap_hasKey(mvBefore, key) =>
                  /\ Stored(mvContent, key) = Stored(mvContentBefore, key) \o mvLastOp.values
                  /\ Len(map) = Len(mvBefore.map)
            /\ ~MultiValueMap_hasKey(mvBefore, key) =>
                  /\ Stored(mvContent, key) = mvLastOp.values
                  /\ Len(map) = Len(mvBefore.map) + 1

\* C16 witness: values holding a duplicate of a value already stored were
\* pushed onto a present key
C16_Witness ==
    /\ MVObserved("push")
    /\ MultiValueMap_hasKey(mvBefore, mvLastOp.keys[1])
    /\ Stored(mvContentBefore, mvLastOp.keys[1]) = << "red" >>
    /\ mvLastOp.values = << "green", "red" >>
    /\ Stored(mvContent, mvLastOp.keys[1]) = << "red", "green", "red" >>

ro == ReadonlyMultiValueMap_new(MultiValueMap_entries(mvContent))

C24_ResultsAreSnapshots ==
    mvLastOp.op \in {"set", "push", "deleteValueOfKey", "deleteByKey", "clear"} =>
        LET obtained == MultiValueMap_values(mvBefore.map)
        IN  Deref(mvLeft, obtained) = Deref(mvBefore.heap, obtained)

\* ----------------------------- claims on the MultiKeyMap iteration ----
\* C19: forEachBreakable breaks the iteration when the callback returns
\* false: once the callback has returned false for an entry it is not
\* invoked for a later entry of that iteration, that is only the last call
\* of an iteration can have returned false.
C19_ForEachBreakableBreaks ==
    iter.kind = "forEachBreakable" =>
        \A i \in 1..(Len(iter.returned) - 1) : iter.returned[i]

\* C20: the iteration of a MultiKeyMap works on a snapshot. forEach,
\* forEachIndexing, forEachBreakable and for-of deliver the entries that
\* were registered when the iteration started, each once and in insertion
\* order, and all of them by the end, whatever the callback or loop body
\* does to the map (set, deleteByKey, deleteByValue, clear) meanwhile.
C20_SnapshotIteration ==
    ~Idle =>
        LET started == MultiKeyMap_entries(iter.atStart)
        IN  /\ Len(iter.delivered) <= Len(started)
            /\ iter.delivered = SubSeq(started, 1, Len(iter.delivered))
            /\ Done => iter.delivered = started

\* C20 witness: both entries of the map were delivered although the map
\* was emptied during the iteration
C20_Witness ==
    /\ Done
    /\ MultiKeyMap_size(iter.atStart) = 2
    /\ Len(iter.delivered) = 2
    /\ size = 0

\* --------------------------- claims on the MultiValueMap iteration ----
\* C21: the iteration of a MultiValueMap works on a snapshot. forEach,
\* forEachIndexing, forEachBreakable and for-of deliver the keys that were
\* present when the iteration started, each once and in insertion order,
\* and all of them by the end, whatever the callback or loop body does to
\* the map (set, push, deleteByKey, clear) meanwhile: a key deleted before
\* its turn is still delivered, a key added is not.
C21_MVSnapshotIteration ==
    ~MVIdle =>
        /\ Len(mvIter.delivered) <= Len(mvIter.atStart)
        /\ mvIter.delivered = SubSeq(mvIter.atStart, 1, Len(mvIter.delivered))
        /\ MVDone => mvIter.delivered = mvIter.atStart

\* C29: every call of MultiValueMap.forEach terminates and invokes the
\* callback at most as many times as the map had entries when the call
\* started, for every callback that makes a bounded number of calls on the
\* map, also one that deletes the key it is visiting and sets it again.
C29_ForEachCallsBounded ==
    mvIter.kind = "forEach" =>
        /\ Len(mvIter.delivered) <= Len(mvIter.atStart)
        /\ Len(mvIter.delivered) = Len(mvIter.atStart) => MVDone

\* ------------------------------ claims on the ReadonlyMultiValueMap ----
\* C23: a ReadonlyMultiValueMap owns its storage and never exposes it. Once
\* it is constructed, the content of get(key), values() and entries() is at
\* every later time what it was after construction, whatever the caller
\* does with the arrays it passed to the constructor or received from get,
\* values or entries.
C23_ReadonlyOwnsStorage ==
    roBuilt.built =>
        /\ RO_content = roBuilt.entries
        /\ Deref(heap, ReadonlyMultiValueMap_values(roMap))
              = [i \in 1..Len(roBuilt.entries) |-> roBuilt.entries[i][2]]
        /\ \A i \in 1..Len(roBuilt.entries) :
              heap[ReadonlyMultiValueMap_get(roMap, roBuilt.entries[i][1])]
                  = roBuilt.entries[i][2]

\* C28: push(key, values) changes only the entry of key. Every other key
\* k2 has the same content before and after the call, however the entries
\* were created (also when one array was given to set for two keys), and
\* the arrays the caller passed earlier to set, which the map stores, hold
\* after the push what they held before it.
C28_PushChangesOneEntry ==
    MVObserved("push") =>
        /\ \A k2 \in MVKeys :
              k2 # mvLastOp.keys[1] =>
                  /\ Map_has(mvContent, k2) <=> Map_has(mvContentBefore, k2)
                  /\ Map_has(mvContentBefore, k2) =>
                        Stored(mvContent, k2) = Stored(mvContentBefore, k2)
        /\ \A ref \in 1..Len(mvBefore.heap) : mvLeft[ref] = mvBefore.heap[ref]

\* ------------------- claims on the MultiKeyMap and its caller's array ----
\* C25: set(k, v) stores an independent copy of the key parts. Whatever the
\* caller does to its array k after the call (changing, adding, removing
\* elements), keys() and entries() report the original parts, and get,
\* hasKey and deleteByKey with the original parts address the entry: the
\* map reads as it did when set returned.
C25_SetCopiesKeys ==
    ~Untracked =>
        /\ Own_view = given.after
        /\ Registered(Own_view, given.keys)
        /\ Includes(MultiKeyMap_entries(Own_view), << given.keys, given.value >>)
        /\ MultiKeyMap_get(Own_view, given.keys) = given.value
        /\ MultiKeyMap_hasKey(Own_view, given.keys)
        /\ MultiKeyMap_deleteByKey(Own_view, given.keys).ret
        /\ ~Registered(MultiKeyMap_deleteByKey(Own_view, given.keys).self, given.keys)

\* C25 witness: the caller has changed the first part of the array it
\* passed, the map holding two entries
C25_Witness ==
    /\ ~Untracked
    /\ Len(heap[given.ref]) = Len(given.keys)
    /\ heap[given.ref][1] # given.keys[1]
    /\ MultiKeyMap_size(Own_view) = 2

\* ------------------------------ claims on composite keys of MultiKeyMap ----
\* C26: composite keys are order-sensitive and independent. From a map
\* holding neither [a, b] nor [b, a] (a # b), set([a, b], v1) then
\* set([b, a], v2) makes size grow by two, get([a, b]) = v1 and
\* get([b, a]) = v2, and deleteByKey(a, b) then leaves get([b, a]) = v2.
\* More generally a set or a deleteByKey on one key-part sequence leaves
\* get(k2) as it was for every element-wise different sequence k2.
C26_OrderSensitiveKeys ==
    /\ (Observed("set") \/ Observed("deleteByKey")) =>
          \A k2 \in KeySeqs :
              k2 # lastOp.keys =>
                  MultiKeyMap_get(this, k2) = MultiKeyMap_get(before, k2)
    /\ Unobserved =>
          \A a \in Parts, b \in Parts, v1 \in Values, v2 \in Values :
              (a # b /\ ~Registered(this, << a, b >>) /\ ~Registered(this, << b, a >>)) =>
                  LET s1 == MultiKeyMap_set(this, << a, b >>, v1)
                      s2 == MultiKeyMap_set(s1, << b, a >>, v2)
                      d == MultiKeyMap_deleteByKey(s2, << a, b >>)
                  IN  /\ MultiKeyMap_size(s2) = size + 2
                      /\ MultiKeyMap_get(s2, << a, b >>) = v1
                      /\ MultiKeyMap_get(s2, << b, a >>) = v2
                      /\ d.ret
                      /\ MultiKeyMap_get(d.self, << b, a >>) = v2
                      /\ ~Registered(d.self, << a, b >>)

\* C26 witness: set([a, b], v1) on a map that holds [b, a] with another
\* value and does not hold [a, b]
C26_Witness ==
    /\ Observed("set")
    /\ Len(lastOp.keys) = 2
    /\ lastOp.keys[1] # lastOp.keys[2]
    /\ ~Registered(before, lastOp.keys)
    /\ Registered(before, << lastOp.keys[2], lastOp.keys[1] >>)
    /\ ValueOf(before, << lastOp.keys[2], lastOp.keys[1] >>) # lastOp.value
    /\ size = 2

\* C30: in every state of a MultiKeyMap reachable through its public
\* operations, each key-part sequence held in the key-parts store has at
\* least one part and is stored under the surrogate computed from that same
\* sequence, and every entry of the value store has its key parts there:
\* entries() never falls back to an empty key-part sequence.
C30_StoredKeyPartsWellFormed ==
    /\ \A i \in 1..Len(keysMap) :
          /\ Len(keysMap[i].val) >= 1
          /\ keysMap[i].key = objectHash(keysMap[i].val)
    /\ \A i \in 1..Len(valueMap) :
          /\ Map_has(keysMap, valueMap[i].key)
          /\ entries[i][1] = Map_get(keysMap, valueMap[i].key)
          /\ entries[i][1] # << >>

\* C30 witness: set with an empty key-part sequence was called on a map
\* holding a one-part key and a two-part key
C30_Witness ==
    /\ Observed("set")
    /\ lastOp.keys = << >>
    /\ size = 2
    /\ Len(keysMap[1].val) + Len(keysMap[2].val) = 3

\* --------------------------------- claims on iterations that only read ----
\* the indexes 0, 1, ..., n - 1
Counting(n) == [i \in 1..n |-> i - 1]

\* C27: forEachIndexing, on MultiKeyMap and on MultiValueMap, with a
\* callback that does not mutate the map, calls the callback once per entry
\* in insertion order, size times in all, and passes the indexes 0, 1, ...,
\* size - 1 in that order; a for-of loop likewise yields exactly size pairs.
C27_IndexingCountsEntries ==
    /\ iter.kind \in {"forEachIndexing", "Symbol.iterator"} =>
          /\ Len(iter.delivered) <= size
          /\ iter.delivered = SubSeq(entries, 1, Len(iter.delivered))
          /\ Done <=> Len(iter.delivered) = size
          /\ iter.kind = "forEachIndexing" =>
                iter.indexes = Counting(Len(iter.delivered))
    /\ mvIter.kind \in {"forEachIndexing", "Symbol.iterator"} =>
          /\ Len(mvIter.delivered) <= Len(Map_keys(map))
          /\ mvIter.delivered = SubSeq(Map_keys(map), 1, Len(mvIter.delivered))
          /\ MVDone <=> Len(mvIter.delivered) = Len(Map_keys(map))
          /\ mvIter.kind = "forEachIndexing" =>
                mvIter.indexes = Counting(Len(mvIter.delivered))

\* C27 witness: forEachIndexing has returned on a MultiKeyMap of two entries
\* and on a MultiValueMap of two entries
C27_Witness ==
    /\ iter.kind = "forEachIndexing"
    /\ Done
    /\ size = 2
    /\ iter.indexes = << 0, 1 >>
    /\ mvIter.kind = "forEachIndexing"
    /\ MVDone
    /\ Len(Map_keys(map)) = 2
    /\ mvIter.indexes = << 0, 1 >>

====
